---------------------------- MODULE Spec2Model ----------------------------
(***************************************************************************)
(* campculator: the lexer (src/src/lexer.rs) and the recursive-descent     *)
(* parser (src/src/parser.rs) as a state machine.                          *)
(*                                                                         *)
(* A character is a one-element name (a TLA+ string); a text is a sequence *)
(* of characters, indexed from 1 here and from 0 in the source: the source *)
(* offset p is the index p + 1.  The lexer's buffer is Vec<char>, the      *)
(* parser's text is a &str over the same characters, which Rust indexes by *)
(* UTF-8 byte: Utf8Len gives each character's width.                       *)
(***************************************************************************)
EXTENDS Integers, Sequences, FiniteSets, TLC

(***************************************************************************)
(* Bounds of the model.                                                    *)
(***************************************************************************)
\* every text over Alphabet of at most this many characters is an input
MaxLen == 3

(***************************************************************************)
(* Characters.                                                             *)
(***************************************************************************)
NBSP == "NBSP"     \* U+00A0, white space, two bytes in UTF-8
EACUTE == "EACUTE" \* U+00E9, a letter outside the ASCII ranges, two bytes

Digits == {"0", "1", "2", "3", "4", "5", "6", "7", "8", "9"}

Range(f) == {f[i] : i \in DOMAIN f}

UpperSeq == <<"A", "B", "C", "D", "E", "F", "G", "H", "I", "J", "K", "L", "M",
              "N", "O", "P", "Q", "R", "S", "T", "U", "V", "W", "X", "Y", "Z">>

LowerSeq == <<"a", "b", "c", "d", "e", "f", "g", "h", "i", "j", "k", "l", "m",
              "n", "o", "p", "q", "r", "s", "t", "u", "v", "w", "x", "y", "z">>

Uppers == Range(UpperSeq)

Lowers == Range(LowerSeq)

\* 'A'..='Z' | 'a'..='z' | '_'
IsIdentStart(c) == c \in Uppers \cup Lowers \cup {"_"}

\* 'A'..='Z' | 'a'..='z' | '_' | '0'..='9'
IsIdentPart(c) == IsIdentStart(c) \/ c \in Digits

\* char::is_whitespace, on the characters of the model
IsWhitespace(c) == c \in {" ", "\t", "\n", NBSP}

\* the width of a character in the parser's &str
Utf8Len(c) == IF c \in {NBSP, EACUTE} THEN 2 ELSE 1

(***************************************************************************)
(* Tokens.                                                                 *)
(***************************************************************************)
TokenVariant == {"Add", "Sub", "Mul", "Div", "Pow", "Equal", "Int", "Arrow",
                 "Float", "Id", "RParen", "LParen", "Fn", "Invalid"}

\* Some(Token { from, to, variant })
Token(from, to, variant) ==
    [some |-> TRUE, from |-> from, to |-> to, variant |-> variant]

\* Option<Token>::None
NoToken == [some |-> FALSE, from |-> 0, to |-> 0, variant |-> "None"]

(***************************************************************************)
(* The lexer.  A lexer operation takes the buffer and the cursor (a source *)
(* offset, from 0) and gives the token it returns and the cursor it leaves.*)
(***************************************************************************)
\* self.text.get(self.position): the character at the cursor, "" for None
Current(text, position) ==
    IF position < Len(text) THEN text[position + 1] ELSE ""

HasCurrent(text, position) == position < Len(text)

\* &self.text[from..=to]
Slice(text, from, to) == SubSeq(text, from + 1, to + 1)

RECURSIVE IdentifierLoop(_, _, _, _)
IdentifierLoop(text, from, to, position) ==
    IF HasCurrent(text, position) /\ IsIdentPart(Current(text, position))
    THEN IdentifierLoop(text, from, position, position + 1)
    ELSE [tok |-> Token(from, to,
                        IF Slice(text, from, to) = <<"f", "n">>
                        THEN "Fn" ELSE "Id"),
          position |-> position]

\* make_identifier taking a word that starts with "fn" for the keyword
make_identifier_fn_prefix(text, position) ==
    IF Current(text, position) = "f" /\ Current(text, position + 1) = "n"
    THEN [IdentifierLoop(text, position, position, position)
             EXCEPT !.tok.variant = "Fn"]
    ELSE IdentifierLoop(text, position, position, position)

make_identifier(text, position) ==
    IdentifierLoop(text, position, position, position)

\* make_single reading the cursor after the step
make_single_step_first(text, position, variant) ==
    [tok |-> Token(position + 1, position + 1, variant),
     position |-> position + 1]

\* make_single stepping twice
make_single_step_twice(text, position, variant) ==
    [tok |-> Token(position, position, variant), position |-> position + 2]

make_single(text, position, variant) ==
    [tok |-> Token(position, position, variant), position |-> position + 1]

RECURSIVE NumberLoop(_, _, _, _, _)
\* the loop of make_number setting `to` after the test for a second '.'
NumberLoop_to_late(text, from, to, variant, position) ==
    IF HasCurrent(text, position) /\ Current(text, position) = "."
    THEN IF variant = "Float"
         THEN [tok |-> Token(from, to, "Invalid"), position |-> position]
         ELSE NumberLoop(text, from, position, "Float", position + 1)
    ELSE IF HasCurrent(text, position) /\ Current(text, position) \in Digits
    THEN NumberLoop(text, from, position, variant, position + 1)
    ELSE [tok |-> Token(from, to, variant), position |-> position]

NumberLoop(text, from, to, variant, position) ==
    IF HasCurrent(text, position) /\ Current(text, position) = "."
    THEN IF variant = "Float"
         THEN [tok |-> Token(from, position, "Invalid"), position |-> position]
         ELSE NumberLoop(text, from, position, "Float", position + 1)
    ELSE IF HasCurrent(text, position) /\ Current(text, position) \in Digits
    THEN NumberLoop(text, from, position, variant, position + 1)
    ELSE [tok |-> Token(from, to, variant), position |-> position]

\* make_number leaving at a '.' before the step over it
make_number_dot_first(text, position) ==
    IF Current(text, position) = "."
    THEN [tok |-> Token(position, position, "Invalid"), position |-> position]
    ELSE NumberLoop(text, position, position, "Int", position)

make_number(text, position) ==
    NumberLoop(text, position, position, "Int", position)

\* make_double without the step over the second character
make_double_one_step(text, position, double_character, single_variant, double_variant) ==
    [tok |-> Token(position,
                   IF Current(text, position + 1) = double_character
                   THEN position + 1 ELSE position,
                   IF Current(text, position + 1) = double_character
                   THEN double_variant ELSE single_variant),
     position |-> position + 1]

make_double(text, position, double_character, single_variant, double_variant) ==
    IF HasCurrent(text, position + 1)
       /\ Current(text, position + 1) = double_character
    THEN [tok |-> Token(position, position + 1, double_variant),
          position |-> position + 2]
    ELSE [tok |-> Token(position, position, single_variant),
          position |-> position + 1]

RECURSIVE make_token(_, _)
make_token(text, position) ==
    IF ~HasCurrent(text, position)
    THEN [tok |-> NoToken, position |-> position]
    ELSE LET c == Current(text, position) IN
         CASE c \in Digits \cup {"."} -> make_number(text, position)
           [] IsIdentStart(c) -> make_identifier(text, position)
           [] c = "+" -> make_single(text, position, "Add")
           [] c = "-" -> make_single(text, position, "Sub")
           [] c = "^" -> make_single(text, position, "Pow")
           [] c = "*" -> make_single(text, position, "Mul")
           [] c = "=" -> make_double(text, position, ">", "Equal", "Arrow")
           [] c = "/" -> make_single(text, position, "Div")
           [] c = "(" -> make_single(text, position, "LParen")
           [] c = ")" -> make_single(text, position, "RParen")
           [] IsWhitespace(c) -> make_token(text, position + 1)
           [] OTHER -> make_single(text, position, "Invalid")

(***************************************************************************)
(* The parser's text is a &str: text[from..=to] takes the BYTES from..=to  *)
(* and panics when an end of the range is not a character boundary.        *)
(***************************************************************************)
RECURSIVE ByteOffset(_, _)
\* the byte offset of the character with source offset n (n = Len: the end)
ByteOffset(text, n) ==
    IF n = 0 THEN 0 ELSE ByteOffset(text, n - 1) + Utf8Len(text[n])

IsCharBoundary(text, b) == \E n \in 0..Len(text) : ByteOffset(text, n) = b

CharAtByte(text, b) == CHOOSE n \in 0..Len(text) : ByteOffset(text, n) = b

\* &self.text[from..=to] of the parser: ok = FALSE is the slicing panic
StrSlice(text, from, to) ==
    IF from <= to + 1 /\ IsCharBoundary(text, from)
       /\ IsCharBoundary(text, to + 1)
    THEN [ok |-> TRUE,
          chars |-> SubSeq(text, CharAtByte(text, from) + 1,
                           CharAtByte(text, to + 1))]
    ELSE [ok |-> FALSE, chars |-> <<>>]

(***************************************************************************)
(* str::parse::<i64> and str::parse::<f64>.  A value is kept in canonical  *)
(* decimal form (no leading zeros, no trailing fraction zeros), so that    *)
(* "007" and "7" are the same value and "." is none.                       *)
(***************************************************************************)
AllDigits(s) == \A i \in 1..Len(s) : s[i] \in Digits

DigitValue(c) == CHOOSE v \in 0..9 : <<"0", "1", "2", "3", "4", "5", "6", "7",
                                       "8", "9">>[v + 1] = c

RECURSIVE StripLeadingZeros(_)
StripLeadingZeros(s) ==
    IF Len(s) > 1 /\ s[1] = "0" THEN StripLeadingZeros(Tail(s)) ELSE s

RECURSIVE StripTrailingZeros(_)
StripTrailingZeros(s) ==
    IF Len(s) > 0 /\ s[Len(s)] = "0"
    THEN StripTrailingZeros(SubSeq(s, 1, Len(s) - 1)) ELSE s

RECURSIVE DigitsGreater(_, _)
\* a > b, for digit sequences of the same length
DigitsGreater(a, b) ==
    IF Len(a) = 0 THEN FALSE
    ELSE IF a[1] /= b[1] THEN DigitValue(a[1]) > DigitValue(b[1])
    ELSE DigitsGreater(Tail(a), Tail(b))

I64MaxDigits == <<"9", "2", "2", "3", "3", "7", "2", "0", "3", "6", "8", "5",
                  "4", "7", "7", "5", "8", "0", "7">>

I64MinDigits == <<"9", "2", "2", "3", "3", "7", "2", "0", "3", "6", "8", "5",
                  "4", "7", "7", "5", "8", "0", "8">>

HasSign(s) == Len(s) > 0 /\ s[1] \in {"+", "-"}

Unsigned(s) == IF HasSign(s) THEN Tail(s) ELSE s

IsNegative(s) == Len(s) > 0 /\ s[1] = "-"

\* i64::from_str: [+-]? digit+, within the 64-bit range
ParseI64(s) ==
    LET digits == Unsigned(s)
        canon == StripLeadingZeros(digits)
        limit == IF IsNegative(s) THEN I64MinDigits ELSE I64MaxDigits
        fits == Len(canon) < Len(limit)
                \/ (Len(canon) = Len(limit) /\ ~DigitsGreater(canon, limit))
    IN IF Len(digits) > 0 /\ AllDigits(digits) /\ fits
       THEN [ok |-> TRUE,
             value |-> [neg |-> IsNegative(s) /\ canon /= <<"0">>,
                        digits |-> canon]]
       ELSE [ok |-> FALSE, value |-> [neg |-> FALSE, digits |-> <<>>]]

\* ASCII lower case of a character
ToLower(c) ==
    IF c \in Uppers
    THEN LowerSeq[CHOOSE i \in DOMAIN UpperSeq : UpperSeq[i] = c]
    ELSE c

LowerCase(s) == [i \in 1..Len(s) |-> ToLower(s[i])]

\* the first index of s holding 'e' or 'E', Len(s) + 1 when there is none
ExpIndex(s) ==
    IF \E i \in 1..Len(s) : s[i] \in {"e", "E"}
    THEN CHOOSE i \in 1..Len(s) :
            /\ s[i] \in {"e", "E"}
            /\ \A j \in 1..(i - 1) : s[j] \notin {"e", "E"}
    ELSE Len(s) + 1

\* the first index of s holding '.', Len(s) + 1 when there is none
DotIndex(s) ==
    IF \E i \in 1..Len(s) : s[i] = "."
    THEN CHOOSE i \in 1..Len(s) :
            s[i] = "." /\ \A j \in 1..(i - 1) : s[j] /= "."
    ELSE Len(s) + 1

NoFloat == [neg |-> FALSE, special |-> "", int |-> <<>>, frac |-> <<>>,
            exp |-> <<>>]

\* f64::from_str: [+-]? ( inf | infinity | nan |
\*                        (digit+ | digit+ . digit* | digit* . digit+) exp? )
\* exp: [eE] [+-]? digit+
ParseF64(s) ==
    LET body == Unsigned(s)
        e == ExpIndex(body)
        mantissa == SubSeq(body, 1, e - 1)
        exponent == SubSeq(body, e + 1, Len(body))
        d == DotIndex(mantissa)
        int == SubSeq(mantissa, 1, d - 1)
        frac == SubSeq(mantissa, d + 1, Len(mantissa))
        mantissaOk == AllDigits(int) /\ AllDigits(frac)
                      /\ Len(int) + Len(frac) > 0
        exponentOk == e > Len(body)
                      \/ (Len(Unsigned(exponent)) > 0
                          /\ AllDigits(Unsigned(exponent)))
    IN IF LowerCase(body) \in {<<"i", "n", "f">>, <<"n", "a", "n">>,
                               <<"i", "n", "f", "i", "n", "i", "t", "y">>}
       THEN [ok |-> TRUE,
             value |-> [NoFloat EXCEPT !.neg = IsNegative(s),
                                       !.special = LowerCase(body)[1]]]
       ELSE IF mantissaOk /\ exponentOk
       THEN [ok |-> TRUE,
             value |-> [neg |-> IsNegative(s), special |-> "",
                        int |-> StripLeadingZeros(int),
                        frac |-> StripTrailingZeros(frac),
                        exp |-> exponent]]
       ELSE [ok |-> FALSE, value |-> NoFloat]

(***************************************************************************)
(* The state: the source text, the Lexer (position), the Parser (current), *)
(* and what the caller has observed of the calls made so far.              *)
(***************************************************************************)
VARIABLES
    text,        \* the source text, given to Lexer::new and to Parser::new
    position,    \* Lexer.position
    current,     \* Parser.current, the lookahead: Option<Token>
    owner,       \* who holds the Lexer: "caller", "parser", or "aborted"
                 \* once a panic has ended the process
    fresh,       \* the Parser has been constructed and no method called yet
    emitted,     \* the tokens Lexer::next has returned so far, in order
    ended,       \* some Lexer::next call has returned None
    lastNext,    \* the last Lexer::next call: cursor before, after, result
    raised,      \* the errors the last Parser operation constructed, in
                 \* order, in itself and in the rules it called
    op,          \* the last operation called
    pre,         \* the parser and the lexer as they were when it was called
    result       \* what the last Parser operation returned

vars == <<text, position, current, owner, fresh, emitted, ended, lastNext,
          raised, op, pre, result>>

(***************************************************************************)
(* The AST and the results of the parser's operations.                     *)
(***************************************************************************)
NoExpr == [node |-> "None"]

IntExpr(value) == [node |-> "Int", value |-> value]

FloatExpr(value) == [node |-> "Float", value |-> value]

IdExpr(name) == [node |-> "Id", name |-> name]

Binary(variant, left, right) ==
    [node |-> "Binary", op |-> variant, left |-> left, right |-> right]

NoMessage == [expected |-> <<>>, got |-> ""]

\* no Parser operation has returned yet
NoOutcome == [kind |-> "None", expr |-> NoExpr, tok |-> NoToken,
              from |-> 0, to |-> 0, message |-> NoMessage, why |-> ""]

\* Ok(expr)
Ok(expr) == [NoOutcome EXCEPT !.kind = "Ok", !.expr = expr]

\* Ok(token), of eat
OkToken(tok) == [NoOutcome EXCEPT !.kind = "Ok", !.tok = tok]

\* Err(Error { from, to, message }): the message names the expected kinds
\* and the kind found
Err(from, to, expected, got) ==
    [NoOutcome EXCEPT !.kind = "Err", !.from = from, !.to = to,
                      !.message = [expected |-> expected, got |-> got]]

\* panic!, todo!, expect on Err, or a slice out of a character boundary
Panic(why) == [NoOutcome EXCEPT !.kind = "Panic", !.why = why]

(***************************************************************************)
(* The Lexer and the Parser's lookahead as one record st, which the        *)
(* operations below take and give back with the result.                    *)
(***************************************************************************)
St == [current |-> current, position |-> position, emitted |-> emitted,
       ended |-> ended, lastNext |-> lastNext, raised |-> raised]

\* the result Err(..) of a rule that constructs this error in the state st
Raise(st, err) == [out |-> err, st |-> [st EXCEPT !.raised = Append(@, err)]]

NoCall == [called |-> FALSE, before |-> 0, after |-> 0, tok |-> NoToken]

\* the lexer and the record of its calls after a call that found the cursor
\* at `before` and returned r
Returned(st, before, r) ==
    [st EXCEPT !.position = r.position,
               !.emitted = IF r.tok.some THEN Append(@, r.tok) ELSE @,
               !.ended = @ \/ ~r.tok.some,
               !.lastNext = [called |-> TRUE, before |-> before,
                             after |-> r.position, tok |-> r.tok]]

\* next starting over from the first character once the buffer is drained
next_restart(txt, st) ==
    Returned(st, st.position,
             IF make_token(txt, st.position).tok.some
             THEN make_token(txt, st.position)
             ELSE [tok |-> NoToken, position |-> 0])

\* Iterator::next of Lexer
next(txt, st) == Returned(st, st.position, make_token(txt, st.position))

\* self.current = <the token the lexer returned>
Lookahead(st) == [st EXCEPT !.current = st.lastNext.tok]

\* Parser::step
step(txt, st) == Lookahead(next(txt, st))

\* eat comparing the kinds before the step
eat_compare_first(txt, st, variant) ==
    IF ~st.current.some
    THEN Raise(st, Err(0, 0, <<variant>>, "None"))
    ELSE IF st.current.variant /= variant
    THEN Raise([st EXCEPT !.current = NoToken],
               Err(st.current.from, st.current.to, <<variant>>,
                   st.current.variant))
    ELSE [out |-> OkToken(st.current), st |-> step(txt, st)]

\* Parser::eat
eat(txt, st, variant) ==
    IF ~st.current.some
    THEN Raise(st, Err(0, 0, <<variant>>, "None"))
    ELSE IF st.current.variant /= variant
    THEN Raise(step(txt, st),
               Err(st.current.from, st.current.to, <<variant>>,
                   st.current.variant))
    ELSE [out |-> OkToken(st.current), st |-> step(txt, st)]

\* Below, `CHOOSE y \in {F(v) : v \in {x}} : TRUE` is F of the value of x:
\* what a sub-rule returned is computed once and then used, as in
\* `let v = x; F(v)`.

\* Parser::parse_unary: todo!()
parse_unary(txt, st) == [out |-> Panic("not yet implemented"), st |-> st]

\* The rules below are written with one definition per point of the source
\* where a sub-rule has returned: `l`, `r`, `e` and `id` are what it
\* returned, and a result that is not Ok leaves the rule at once (the `?`
\* operator, or the unwinding of a panic).

RECURSIVE MulDivLoop(_, _, _)

\* parse_mul_div, after `let right = self.parse_unary()?`
MulDivRight(txt, left, variant, r) ==
    IF r.out.kind /= "Ok" THEN r
    ELSE MulDivLoop(txt, Binary(variant, left, r.out.expr), r.st)

\* parse_mul_div, the loop
MulDivLoop(txt, left, st) ==
    IF st.current.variant \notin {"Mul", "Div"}
    THEN [out |-> Ok(left), st |-> st]
    ELSE CHOOSE y \in {MulDivRight(txt, left, st.current.variant, r) :
                         r \in {parse_unary(txt, step(txt, st))}} : TRUE

\* parse_mul_div, after `let mut left = self.parse_unary()?`
MulDivLeft(txt, l) ==
    IF l.out.kind /= "Ok" THEN l ELSE MulDivLoop(txt, l.out.expr, l.st)

\* Parser::parse_mul_div
parse_mul_div(txt, st) ==
    CHOOSE y \in {MulDivLeft(txt, l) :
                    l \in {parse_unary(txt, st)}} : TRUE

RECURSIVE AddSubLoop(_, _, _)

\* parse_add_sub, after `let right = self.parse_mul_div()?`
AddSubRight(txt, left, variant, r) ==
    IF r.out.kind /= "Ok" THEN r
    ELSE AddSubLoop(txt, Binary(variant, left, r.out.expr), r.st)

\* parse_add_sub, the loop
AddSubLoop(txt, left, st) ==
    IF st.current.variant \notin {"Add", "Sub"}
    THEN [out |-> Ok(left), st |-> st]
    ELSE CHOOSE y \in {AddSubRight(txt, left, st.current.variant, r) :
                         r \in {parse_mul_div(txt, step(txt, st))}} : TRUE

\* parse_add_sub, after `let mut left = self.parse_mul_div()?`
AddSubLeft(txt, l) ==
    IF l.out.kind /= "Ok" THEN l ELSE AddSubLoop(txt, l.out.expr, l.st)

\* Parser::parse_add_sub
parse_add_sub(txt, st) ==
    CHOOSE y \in {AddSubLeft(txt, l) :
                    l \in {parse_mul_div(txt, st)}} : TRUE

\* parse_eq, after `let right = self.parse_add_sub()?`
EqRight(left, r) ==
    IF r.out.kind /= "Ok" THEN r
    ELSE [out |-> Ok(Binary("Eq", left, r.out.expr)), st |-> r.st]

\* parse_eq, after `let _ = self.eat(TokenVariant::Equal)?`
EqEaten(txt, left, e) ==
    IF e.out.kind /= "Ok" THEN e
    ELSE CHOOSE y \in {EqRight(left, r) :
                         r \in {parse_add_sub(txt, e.st)}} : TRUE

\* parse_eq, after `let left = self.parse_add_sub()?`
EqLeft(txt, l) ==
    IF l.out.kind /= "Ok" THEN l
    ELSE IF ~l.st.current.some THEN l
    ELSE CHOOSE y \in {EqEaten(txt, l.out.expr, e) :
                         e \in {eat(txt, l.st, "Equal")}} : TRUE

\* Parser::parse_eq
parse_eq(txt, st) ==
    CHOOSE y \in {EqLeft(txt, l) :
                    l \in {parse_add_sub(txt, st)}} : TRUE

\* Parser::parse_expr
parse_expr(txt, st) == parse_eq(txt, st)

\* the Int arm's conversion of the slice s
IntOf(s) ==
    IF ~s.ok THEN Panic("byte index is not a char boundary")
    ELSE IF ~ParseI64(s.chars).ok
    THEN Panic("should not tokenize incorrect int")
    ELSE Ok(IntExpr(ParseI64(s.chars).value))

\* Parser::parse_operand, the Int arm
OperandInt(txt, st) ==
    [out |-> IntOf(StrSlice(txt, st.current.from, st.current.to)),
     st |-> st]

\* the Float arm's conversion of the slice s
FloatOf(s) ==
    IF ~s.ok THEN Panic("byte index is not a char boundary")
    ELSE IF ~ParseF64(s.chars).ok
    THEN Panic("should not tokenize incorrect float")
    ELSE Ok(FloatExpr(ParseF64(s.chars).value))

\* Parser::parse_operand, the Float arm
OperandFloat(txt, st) ==
    [out |-> FloatOf(StrSlice(txt, st.current.from, st.current.to)),
     st |-> st]

\* Expr::Id of the slice s
IdOf(s) ==
    IF ~s.ok THEN Panic("byte index is not a char boundary")
    ELSE Ok(IdExpr(s.chars))

\* Parser::parse_operand, the Id arm
OperandId(txt, st) ==
    [out |-> IdOf(StrSlice(txt, st.current.from, st.current.to)),
     st |-> st]

\* the LParen arm, after `let expr = self.parse_expr()` (no `?`): the
\* closing token is checked against LParen, and expr is returned after it
LParenClosing(txt, r) ==
    IF r.out.kind = "Panic" THEN r
    ELSE IF ~r.st.current.some
    THEN Raise(step(txt, r.st), Err(0, 0, <<"LParen">>, "None"))
    ELSE IF r.st.current.variant /= "LParen"
    THEN Raise(step(txt, r.st),
               Err(r.st.current.from, r.st.current.to, <<"LParen">>,
                   r.st.current.variant))
    ELSE [out |-> r.out, st |-> step(txt, r.st)]

\* Parser::parse_operand, the LParen arm
OperandLParen(txt, st) ==
    CHOOSE y \in {LParenClosing(txt, r) :
                    r \in {parse_expr(txt, step(txt, st))}} : TRUE

\* the Fn arm, after `let expr = self.parse_expr()?`
FnBody(name, r) ==
    IF r.out.kind /= "Ok" THEN r
    ELSE [out |-> Ok(Binary("Fn", name, r.out.expr)), st |-> r.st]

\* the Fn arm, after the slice of the name
FnNamed(txt, st, name) ==
    IF name.kind /= "Ok" THEN [out |-> name, st |-> st]
    ELSE CHOOSE y \in {FnBody(name.expr, r) :
                         r \in {parse_expr(txt, st)}} : TRUE

\* the Fn arm: Expr::Id(self.text[id.from..=id.to].to_string())
FnName(txt, tok) == IdOf(StrSlice(txt, tok.from, tok.to))

\* the Fn arm, after `let id = self.eat(TokenVariant::Id)?`
FnEaten(txt, id) ==
    IF id.out.kind /= "Ok" THEN id
    ELSE CHOOSE y \in {FnNamed(txt, id.st, name) :
                         name \in {FnName(txt, id.out.tok)}} : TRUE

\* Parser::parse_operand, the Fn arm
OperandFn(txt, st) ==
    CHOOSE y \in {FnEaten(txt, id) :
                    id \in {eat(txt, step(txt, st), "Id")}} : TRUE

\* the kinds the message of the operand rule's error arm lists
OperandExpected == <<"Int", "Float", "Id", "RParen", "Fn">>

\* Parser::parse_operand, the error arm
OperandError(txt, st) ==
    Raise(step(txt, st),
          Err(st.current.from, st.current.to, OperandExpected,
              st.current.variant))

\* Parser::parse_operand, entered with the state st
OperandArms(txt, st) ==
    IF ~st.current.some
    THEN [out |-> Panic("break shit get hit"), st |-> st]
    ELSE CASE st.current.variant = "Int" -> OperandInt(txt, st)
           [] st.current.variant = "Float" -> OperandFloat(txt, st)
           [] st.current.variant = "Id" -> OperandId(txt, st)
           [] st.current.variant = "LParen" -> OperandLParen(txt, st)
           [] st.current.variant = "Fn" -> OperandFn(txt, st)
           [] st.current.variant \in {"Add", "Sub", "Mul", "Div", "Pow",
                                      "Equal", "Arrow", "RParen", "Invalid"}
              -> OperandError(txt, st)

\* Parser::parse_operand
parse_operand(txt, st) ==
    CHOOSE y \in {OperandArms(txt, s) : s \in {st}} : TRUE

\* Parser::parse
parse(txt, st) == parse_operand(txt, st)

(***************************************************************************)
(* The inputs: every text over Alphabet of at most MaxLen characters, and  *)
(* the texts the design document and the lexer's test name.                *)
(***************************************************************************)
Alphabet == {"1", ".", "x", "+", "=", "(", ")", " "}

RECURSIVE TextsOfLen(_)
TextsOfLen(n) ==
    IF n = 0 THEN {<<>>}
    ELSE {Append(t, c) : t \in TextsOfLen(n - 1), c \in Alphabet}

Examples ==
    {<<"1", "+", "2", "*", "3">>,
     <<"1", "-", "2", "-", "3">>,
     <<"1", "=", "2", "=", "3">>,
     <<"f", "n", " ", "x", " ", "x", "+", "1">>,
     <<"f", "n", " ", "+">>,
     <<"f", "n">>,
     <<"f", "n", "x">>,
     <<"x", "f", "n">>,
     <<"f", "n", "1", "+">>,
     <<"_", "f", "n", " ", "F", "n">>,
     <<"=", ">">>,
     <<"=", " ", ">">>,
     <<"=", ">", ">", "=">>,
     <<"4", "/", "2", "^", "3">>,
     <<"(", "1", "+", "2", ")">>,
     <<"(", "(", "1", ")", ")">>,
     <<"(", "x", "(">>,
     <<"=", "=", ">">>,
     <<"1", ".", "5", ".", "2">>,
     <<"0", "0", "7">>,
     <<"#", "1">>,
     <<NBSP, "x">>,
     <<EACUTE, "1", "2">>,
     <<"9", "2", "2", "3", "3", "7", "2", "0", "3", "6", "8", "5", "4", "7",
       "7", "5", "8", "0", "8">>,
     <<"A", "B", "C", "_", "1", "+", "-", "*", "/", "^", "(", ")", "=", "=",
       ">", "1", "2", "3", " ", "1", "2", "3", ".", "4", "f", "n">>}

Texts == (UNION {TextsOfLen(n) : n \in 0..MaxLen}) \cup Examples

\* the kinds the parser passes to eat
EatKinds == {"Id", "Equal"}

(***************************************************************************)
(* Init: Lexer::new(text); the caller holds the lexer and no parser exists.*)
(***************************************************************************)
Init ==
    /\ text \in Texts
    /\ position = 0
    /\ current = NoToken
    /\ owner = "caller"
    /\ fresh = FALSE
    /\ emitted = <<>>
    /\ ended = FALSE
    /\ lastNext = NoCall
    /\ raised = <<>>
    /\ op = [name |-> "Lexer::new", arg |-> ""]
    /\ pre = [current |-> NoToken, position |-> 0, emitted |-> <<>>,
              ended |-> FALSE, lastNext |-> NoCall, raised |-> <<>>,
              fresh |-> FALSE]
    /\ result = NoOutcome

SetSt(st) ==
    /\ current' = st.current
    /\ position' = st.position
    /\ emitted' = st.emitted
    /\ ended' = st.ended
    /\ lastNext' = st.lastNext
    /\ raised' = st.raised

Called(name, arg) ==
    /\ op' = [name |-> name, arg |-> arg]
    /\ pre' = [current |-> current, position |-> position,
               emitted |-> emitted, ended |-> ended, lastNext |-> lastNext,
               raised |-> <<>>, fresh |-> fresh]
    /\ UNCHANGED text

\* the parser and the lexer as an operation finds them
Entry == [St EXCEPT !.raised = <<>>]

\* the caller pulls the next token from the lexer it holds
LexerNext ==
    /\ owner = "caller"
    /\ SetSt(next(text, St))
    /\ Called("Lexer::next", "")
    /\ UNCHANGED <<owner, fresh, result>>

\* Parser::new(text, lexer): the lexer moves into the parser
ParserNew ==
    /\ owner = "caller"
    /\ owner' = "parser"
    /\ fresh' = TRUE
    /\ current' = NoToken
    /\ Called("Parser::new", "")
    /\ UNCHANGED <<position, emitted, ended, lastNext, raised, result>>

\* A call of a Parser operation that returns r (a panic ends the process).
\* Only `new` and `parse` are public; the private rules, `eat` and `step` are
\* operations here as well, each entered in any state the others leave, so
\* that what a rule does is observed for every lookahead it can be called on.
Returns(name, arg, r) ==
    /\ owner = "parser"
    /\ SetSt(r.st)
    /\ result' = r.out
    /\ owner' = IF r.out.kind = "Panic" THEN "aborted" ELSE "parser"
    /\ fresh' = FALSE
    /\ Called(name, arg)

Parse == Returns("parse", "", parse(text, Entry))

ParseOperand == Returns("parse_operand", "", parse_operand(text, Entry))

ParseExpr == Returns("parse_expr", "", parse_expr(text, Entry))

ParseEq == Returns("parse_eq", "", parse_eq(text, Entry))

ParseAddSub == Returns("parse_add_sub", "", parse_add_sub(text, Entry))

ParseMulDiv == Returns("parse_mul_div", "", parse_mul_div(text, Entry))

ParseUnary == Returns("parse_unary", "", parse_unary(text, Entry))

Eat == \E variant \in EatKinds :
          Returns("eat", variant, eat(text, Entry, variant))

Step == Returns("step", "", [out |-> NoOutcome, st |-> step(text, Entry)])

Next ==
    \/ LexerNext
    \/ ParserNew
    \/ Parse
    \/ ParseOperand
    \/ ParseExpr
    \/ ParseEq
    \/ ParseAddSub
    \/ ParseMulDiv
    \/ ParseUnary
    \/ Eat
    \/ Step

Spec == Init /\ [][Next]_vars

(***************************************************************************)
(* What the properties below speak about.                                  *)
(***************************************************************************)
RECURSIVE DrainFrom(_, _)
\* the tokens the lexer returns from the cursor p on, to the end of input
DrainFrom(txt, p) ==
    IF make_token(txt, p).tok.some
    THEN <<make_token(txt, p).tok>>
         \o DrainFrom(txt, make_token(txt, p).position)
    ELSE <<>>

\* the characters the lexer scanned for the token tok
TokenText(txt, tok) == Slice(txt, tok.from, tok.to)

OperandKinds == {"Int", "Float", "Id"}

ChainOperators == {"Add", "Sub", "Mul", "Div"}

\* the kinds the operand rule rejects
RejectedKinds == {"Add", "Sub", "Mul", "Div", "Pow", "Equal", "Arrow",
                  "RParen", "Invalid"}

\* the text of an Int or Float token converts to a number
Converts(txt, tok) ==
    CASE tok.variant = "Int" -> ParseI64(TokenText(txt, tok)).ok
      [] tok.variant = "Float" -> ParseF64(TokenText(txt, tok)).ok
      [] OTHER -> TRUE

\* well-formed operands joined by + - * /
IsChain(txt, toks) ==
    /\ Len(toks) % 2 = 1
    /\ \A i \in 1..Len(toks) :
          IF i % 2 = 1
          THEN toks[i].variant \in OperandKinds /\ Converts(txt, toks[i])
          ELSE toks[i].variant \in ChainOperators

\* the leaf of an operand token
LeafOf(txt, tok) ==
    CASE tok.variant = "Int" -> IntExpr(ParseI64(TokenText(txt, tok)).value)
      [] tok.variant = "Float" ->
            FloatExpr(ParseF64(TokenText(txt, tok)).value)
      [] OTHER -> IdExpr(TokenText(txt, tok))

RECURSIVE MulRun(_, _, _, _)
\* acc extended to the left-associated product that ends before toks[i]
MulRun(txt, toks, i, acc) ==
    IF i < Len(toks) /\ toks[i].variant \in {"Mul", "Div"}
    THEN MulRun(txt, toks, i + 2,
                Binary(toks[i].variant, acc, LeafOf(txt, toks[i + 1])))
    ELSE [expr |-> acc, i |-> i]

RECURSIVE AddRun(_, _, _, _)
\* acc extended to the left-associated sum of the products from toks[i] on
AddRun(txt, toks, i, acc) ==
    IF i < Len(toks)
    THEN LET t == MulRun(txt, toks, i + 2, LeafOf(txt, toks[i + 1])) IN
         AddRun(txt, toks, t.i, Binary(toks[i].variant, acc, t.expr))
    ELSE acc

\* the AST of the layered grammar for a chain: * and / bind tighter than
\* + and -, each layer associates to the left
LayeredAst(txt, toks) ==
    LET t == MulRun(txt, toks, 2, LeafOf(txt, toks[1])) IN
    AddRun(txt, toks, t.i, t.expr)

\* parse was called on a parser just constructed over a lexer just
\* constructed
FreshParse ==
    /\ op.name = "parse"
    /\ pre.fresh
    /\ ~pre.lastNext.called

\* the lookahead after the last operation is the lexer's token at the
\* cursor the operation found, and the cursor is just after it
AdvancedOnce ==
    /\ current = make_token(text, pre.position).tok
    /\ position = make_token(text, pre.position).position

(***************************************************************************)
(* C1: on a freshly constructed parser, parse returns an Expr or a         *)
(* ParseError for every input text; it never aborts the process.           *)
(* Parser::new leaves the lookahead empty and parse enters the operand     *)
(* rule without a step, so the rule panics for every text.                 *)
(***************************************************************************)
C1_ParseNeverAborts == FreshParse => result.kind \in {"Ok", "Err"}

(***************************************************************************)
(* C2: the tokens successive Lexer::next calls return never overlap: each  *)
(* token's from is strictly greater than the to of the token before it.    *)
(* After the Invalid token of a number with a second '.', the cursor is    *)
(* still on that '.', which the next token spans again.                    *)
(***************************************************************************)
C2_TokensNeverOverlap ==
    \A i \in 2..Len(emitted) : emitted[i].from > emitted[i - 1].to

(***************************************************************************)
(* C3: for every input made of operands joined by + - * /, parse returns   *)
(* Ok with the AST of the layered grammar.                                 *)
(***************************************************************************)
C3_ChainParsesLayered ==
    (/\ FreshParse
     /\ IsChain(text, DrainFrom(text, 0))
     /\ Len(DrainFrom(text, 0)) >= 3)
        => result = Ok(LayeredAst(text, DrainFrom(text, 0)))

\* the positions of the Equal tokens among toks
EqualsAt(toks) == {i \in 1..Len(toks) : toks[i].variant = "Equal"}

\* a = b = c, with a, b and c chains: the index of the second '=' is j
IsChainedEquality(txt, toks, i, j) ==
    /\ EqualsAt(toks) = {i, j}
    /\ i < j
    /\ IsChain(txt, SubSeq(toks, 1, i - 1))
    /\ IsChain(txt, SubSeq(toks, i + 1, j - 1))
    /\ IsChain(txt, SubSeq(toks, j + 1, Len(toks)))

(***************************************************************************)
(* C4: for every input a=b=c, parse returns an expected-token mismatch     *)
(* error whose span is the span of the second '=' token.                   *)
(***************************************************************************)
C4_ChainedEqualityRejected ==
    FreshParse =>
        \A i, j \in EqualsAt(DrainFrom(text, 0)) :
            IsChainedEquality(text, DrainFrom(text, 0), i, j) =>
                /\ result.kind = "Err"
                /\ Len(result.message.expected) = 1
                /\ result.from = DrainFrom(text, 0)[j].from
                /\ result.to = DrainFrom(text, 0)[j].to

\* the tokens of the input after the lookahead the last operation found
Rest == DrainFrom(text, pre.position)

\* the length of the longest chain the tokens toks start with (0: none)
ChainPrefix(txt, toks) ==
    IF \E k \in 1..Len(toks) : IsChain(txt, SubSeq(toks, 1, k))
    THEN CHOOSE k \in 1..Len(toks) :
            /\ IsChain(txt, SubSeq(toks, 1, k))
            /\ \A m \in (k + 1)..Len(toks) : ~IsChain(txt, SubSeq(toks, 1, m))
    ELSE 0

\* the operand rule was entered on '(' and a chain e follows, and after e a
\* token that does not continue e
GroupEntered ==
    /\ op.name = "parse_operand"
    /\ pre.current.variant = "LParen"
    /\ ChainPrefix(text, Rest) > 0
    /\ ChainPrefix(text, Rest) < Len(Rest)
    /\ Rest[ChainPrefix(text, Rest) + 1].variant
          \notin ChainOperators \cup {"Equal"}

\* the token in closing position
Closing == Rest[ChainPrefix(text, Rest) + 1]

(***************************************************************************)
(* C5: a parenthesized group must close with RParen: entered on '(' with a *)
(* well-formed e inside, the operand rule returns e's AST and consumes the *)
(* closing token iff that token is RParen; any other token in closing      *)
(* position gives a ParseError at that token's span.                       *)
(***************************************************************************)
C5_GroupClosesWithRParen ==
    GroupEntered =>
        IF Closing.variant = "RParen"
        THEN /\ result = Ok(LayeredAst(text, SubSeq(Rest, 1,
                                                    ChainPrefix(text, Rest))))
             /\ current = make_token(text, Closing.to + 1).tok
        ELSE /\ result.kind = "Err"
             /\ result.from = Closing.from
             /\ result.to = Closing.to

(***************************************************************************)
(* C6: the lexer never fails and always finishes: each Lexer::next call    *)
(* returns a token or end-of-input, a call that returns a token leaves the *)
(* cursor strictly ahead of where it started, and end-of-input comes after *)
(* finitely many calls: every returned token has consumed at least one     *)
(* character of a cursor that never passes the end of the buffer, and      *)
(* end-of-input is returned only there.                                    *)
(***************************************************************************)
C6_LexerProgress ==
    /\ position <= Len(text)
    /\ Len(emitted) <= position
    /\ lastNext.called =>
          /\ lastNext.after = position
          /\ IF lastNext.tok.some
             THEN /\ lastNext.tok.variant \in TokenVariant
                  /\ lastNext.after > lastNext.before
             ELSE lastNext.after = Len(text)

\* a call has returned the Invalid token of a number with a second '.', and
\* a later call has returned the token after it
C6_Witness ==
    /\ Len(emitted) >= 2
    /\ emitted[Len(emitted) - 1].variant = "Invalid"
    /\ emitted[Len(emitted) - 1].to > emitted[Len(emitted) - 1].from
    /\ lastNext.tok = emitted[Len(emitted)]

(***************************************************************************)
(* C7: every Int or Float token the lexer produces has text that converts  *)
(* to a number, so the conversion in the operand rule never hits its       *)
(* internal-invariant failure.  A lone '.' is a Float token.               *)
(***************************************************************************)
C7_NumericTokensConvert ==
    /\ \A i \in 1..Len(emitted) : Converts(text, emitted[i])
    /\ result.why \notin {"should not tokenize incorrect int",
                          "should not tokenize incorrect float"}

\* the operand rule was entered on '(' and the expression inside starts at
\* a token no operand starts with: the expression fails at that token
GroupFails ==
    /\ op.name = "parse_operand"
    /\ pre.current.variant = "LParen"
    /\ Len(Rest) > 0
    /\ Rest[1].variant \in RejectedKinds

(***************************************************************************)
(* C8: the first error wins: when a rule called during the descent returns *)
(* a ParseError, every enclosing rule returns that same error, and no      *)
(* later check replaces it (`raised` holds the errors in the order they    *)
(* were constructed); in particular, when the expression inside a group    *)
(* fails, the operand rule returns the error of that expression.           *)
(***************************************************************************)
C8_FirstErrorWins ==
    /\ Len(raised) > 0 => result.kind = "Err" /\ result = raised[1]
    /\ GroupFails =>
          /\ result.kind = "Err"
          /\ result.from = Rest[1].from
          /\ result.to = Rest[1].to

(***************************************************************************)
(* C9: eat(k) has exactly three outcomes: with no lookahead, an error with *)
(* span (0,0) and nothing pulled from the lexer; with a lookahead of       *)
(* another kind, an error carrying that token's span, the lookahead        *)
(* advanced to the next lexer token; with a lookahead of kind k, that      *)
(* token, the lookahead advanced to the next lexer token.                  *)
(***************************************************************************)
C9_EatOutcomes ==
    op.name = "eat" =>
        IF ~pre.current.some
        THEN /\ result.kind = "Err"
             /\ result.from = 0 /\ result.to = 0
             /\ current = NoToken
             /\ position = pre.position
             /\ emitted = pre.emitted
             /\ lastNext = pre.lastNext
        ELSE IF pre.current.variant /= op.arg
        THEN /\ result.kind = "Err"
             /\ result.from = pre.current.from /\ result.to = pre.current.to
             /\ lastNext.called /\ lastNext.before = pre.position
             /\ AdvancedOnce
        ELSE /\ result = OkToken(pre.current)
             /\ lastNext.called /\ lastNext.before = pre.position
             /\ AdvancedOnce

\* eat met a token of another kind while the lexer had a further token
C9_Witness ==
    /\ op.name = "eat"
    /\ pre.current.some
    /\ pre.current.variant /= op.arg
    /\ result.kind = "Err"
    /\ current.some

\* the operand rule's error arm: the error has the span of the rejected
\* lookahead, and the lookahead has advanced past it
OperandRejects ==
    (op.name = "parse_operand" /\ pre.current.variant \in RejectedKinds)
        => /\ result.kind = "Err"
           /\ result.from = pre.current.from /\ result.to = pre.current.to
           /\ AdvancedOnce

(***************************************************************************)
(* C10: when an operand is expected and the lookahead is an operator,      *)
(* RParen or Invalid, the result is a ParseError with exactly that token's *)
(* span and the lookahead has advanced past it; for an input whose first   *)
(* token is such a token, parse returns that error with the span of the    *)
(* first token.                                                            *)
(***************************************************************************)
C10_OperandErrorAtToken ==
    /\ OperandRejects
    /\ (FreshParse /\ Len(DrainFrom(text, 0)) > 0
        /\ DrainFrom(text, 0)[1].variant \in RejectedKinds)
          => /\ result.kind = "Err"
             /\ result.from = DrainFrom(text, 0)[1].from
             /\ result.to = DrainFrom(text, 0)[1].to

\* the operand rule was entered on the keyword fn
FnEntered ==
    /\ op.name = "parse_operand"
    /\ pre.current.variant = "Fn"

\* the lookahead is the token after the first n tokens of Rest
LookaheadAfter(n) ==
    current = IF Len(Rest) > n THEN Rest[n + 1] ELSE NoToken

(***************************************************************************)
(* C11: entered on fn, the operand rule consumes the keyword and requires  *)
(* an Id: an Id named n followed by a well-formed expression b gives       *)
(* Binary(Fn, Id(n), b); a token of another kind gives an expected-Id      *)
(* error at that token's span; the end of the input after the keyword      *)
(* gives an expected-Id error at (0,0); in both error cases no body is     *)
(* parsed: the error is the only one made and the lexer has been asked for *)
(* nothing beyond the token after the rejected one.                        *)
(***************************************************************************)
C11_FnBindsAnId ==
    FnEntered =>
        IF Len(Rest) = 0
        THEN /\ result = Err(0, 0, <<"Id">>, "None")
             /\ raised = <<result>>
             /\ current = NoToken
        ELSE IF Rest[1].variant /= "Id"
        THEN /\ result = Err(Rest[1].from, Rest[1].to, <<"Id">>,
                             Rest[1].variant)
             /\ raised = <<result>>
             /\ LookaheadAfter(1)
        ELSE IsChain(text, SubSeq(Rest, 2, Len(Rest))) =>
                result = Ok(Binary("Fn", IdExpr(TokenText(text, Rest[1])),
                                   LayeredAst(text,
                                              SubSeq(Rest, 2, Len(Rest)))))

RECURSIVE NumberRunEnd(_, _)
\* the offset of the last character of the run of digits and '.' that
\* holds the offset p
NumberRunEnd(txt, p) ==
    IF p + 1 < Len(txt) /\ txt[p + 2] \in Digits \cup {"."}
    THEN NumberRunEnd(txt, p + 1)
    ELSE p

\* the offsets of the '.' characters from from to to
DotsIn(txt, from, to) == {i \in from..to : txt[i + 1] = "."}

\* the offset of the second '.' of dots
SecondDot(dots) ==
    CHOOSE i \in dots : Cardinality({j \in dots : j < i}) = 1

\* the token of the numeric literal that starts at the offset p: Invalid, up
\* to the second '.', when there is one; else Float with one '.', Int with
\* none, up to the end of the run
NumberAt(txt, p) ==
    LET dots == DotsIn(txt, p, NumberRunEnd(txt, p)) IN
    IF Cardinality(dots) >= 2
    THEN Token(p, SecondDot(dots), "Invalid")
    ELSE Token(p, NumberRunEnd(txt, p),
               IF dots = {} THEN "Int" ELSE "Float")

\* the token tok starts a numeric literal
IsNumberToken(txt, tok) == txt[tok.from + 1] \in Digits \cup {"."}

(***************************************************************************)
(* C12: a numeric literal scanned from a digit or '.' is Int exactly when  *)
(* its span holds no '.', Float exactly when it holds one, and Invalid     *)
(* exactly when a second '.' is met, the Invalid token then spanning from  *)
(* the literal's first character to that second '.'; so no Int or Float    *)
(* token holds more than one '.', and an Int token holds digits only.      *)
(***************************************************************************)
C12_NumberKinds ==
    \A i \in 1..Len(emitted) :
        /\ IsNumberToken(text, emitted[i]) =>
              emitted[i] = NumberAt(text, emitted[i].from)
        /\ emitted[i].variant \in {"Int", "Float"} =>
              Cardinality(DotsIn(text, emitted[i].from, emitted[i].to)) <= 1
        /\ emitted[i].variant = "Int" =>
              AllDigits(TokenText(text, emitted[i]))

\* the lexer has returned the Invalid token of a literal with a digit
\* between its two '.', and a Float token with a digit since
C12_Witness ==
    \E i, j \in 1..Len(emitted) :
        /\ i < j
        /\ emitted[i].variant = "Invalid"
        /\ emitted[i].to > emitted[i].from + 2
        /\ emitted[j].variant = "Float"
        /\ emitted[j].to > emitted[j].from

\* the characters of the token tok are those of an identifier, and the run
\* of such characters ends with it
IsMaximalWord(txt, tok) ==
    /\ IsIdentStart(txt[tok.from + 1])
    /\ \A i \in tok.from..tok.to : IsIdentPart(txt[i + 1])
    /\ tok.to + 1 < Len(txt) => ~IsIdentPart(txt[tok.to + 2])

(***************************************************************************)
(* C13: every Id or Fn token spans a maximal run of characters matching    *)
(* [A-Za-z_][A-Za-z0-9_]* (the character after the span, if any, is no     *)
(* letter, digit or underscore), and its kind is Fn exactly when its text  *)
(* is "fn"; longer words that start with or hold "fn" are Id.              *)
(***************************************************************************)
C13_WordsAndKeyword ==
    \A i \in 1..Len(emitted) :
        emitted[i].variant \in {"Id", "Fn"} =>
            /\ IsMaximalWord(text, emitted[i])
            /\ emitted[i].variant = "Fn"
                  <=> TokenText(text, emitted[i]) = <<"f", "n">>

\* the lexer has returned an Id token for a longer word that starts with
\* "fn"
C13_Witness ==
    \E i \in 1..Len(emitted) :
        /\ emitted[i].variant = "Id"
        /\ emitted[i].to > emitted[i].from + 1
        /\ SubSeq(text, emitted[i].from + 1, emitted[i].from + 2)
              = <<"f", "n">>

\* the token of an '=' at the offset p
EqualAt(txt, p) ==
    IF p + 1 < Len(txt) /\ txt[p + 2] = ">"
    THEN Token(p, p + 1, "Arrow")
    ELSE Token(p, p, "Equal")

(***************************************************************************)
(* C14: an '=' at the cursor p gives an Arrow token with span [p, p+1]     *)
(* when the character at p+1 is '>', and otherwise (another character, or  *)
(* the end of the buffer) an Equal token with span [p, p]; either way the  *)
(* cursor ends just after the token, so "==>" is Equal then Arrow.         *)
(***************************************************************************)
C14_EqualOrArrow ==
    /\ \A i \in 1..Len(emitted) :
          IF text[emitted[i].from + 1] = "="
          THEN emitted[i] = EqualAt(text, emitted[i].from)
          ELSE emitted[i].variant \notin {"Equal", "Arrow"}
    /\ (lastNext.called /\ lastNext.tok.variant \in {"Equal", "Arrow"})
          => lastNext.after = lastNext.tok.to + 1
    /\ (text = <<"=", "=", ">">> /\ ended)
          => emitted = <<Token(0, 0, "Equal"), Token(1, 2, "Arrow")>>

\* "==>" has been drained
C14_Witness ==
    /\ text = <<"=", "=", ">">>
    /\ ended
    /\ Len(emitted) = 2

(***************************************************************************)
(* C15: every token the lexer returns has from <= to, and its span lies    *)
(* inside the buffer: to < the length of the text.                         *)
(***************************************************************************)
C15_SpansInsideBuffer ==
    \A i \in 1..Len(emitted) :
        /\ 0 <= emitted[i].from
        /\ emitted[i].from <= emitted[i].to
        /\ emitted[i].to < Len(text)

\* the lexer has returned a one-character token that ends the buffer, after
\* a token of several characters
C15_Witness ==
    \E i, j \in 1..Len(emitted) :
        /\ emitted[i].to > emitted[i].from
        /\ i < j
        /\ emitted[j].from = emitted[j].to
        /\ emitted[j].to = Len(text) - 1

(***************************************************************************)
(* C16: every grammar rule consumes the lookahead it matches: when the     *)
(* operand rule returns Ok for an Int, Float or Id token, the lookahead is *)
(* the token that follows the operand in the lexer's stream (none at the   *)
(* end of the input), not the operand token itself.                        *)
(***************************************************************************)
C16_OperandConsumed ==
    (/\ op.name = "parse_operand"
     /\ pre.current.variant \in OperandKinds
     /\ result.kind = "Ok")
        => /\ current = make_token(text, pre.position).tok
           /\ current /= pre.current

\* the kinds the operand rule accepts as the start of an operand
OperandStarts == TokenVariant \ RejectedKinds

(***************************************************************************)
(* C17: the expected kinds the operand-position error names are exactly    *)
(* the kinds the operand rule accepts as the start of an operand: Int,     *)
(* Float, Id, LParen and Fn.                                               *)
(***************************************************************************)
C17_ExpectedKindsAreAccepted ==
    /\ OperandStarts = {"Int", "Float", "Id", "LParen", "Fn"}
    /\ (op.name = "parse_operand" /\ pre.current.variant \in RejectedKinds)
          => /\ result.kind = "Err"
             /\ Range(result.message.expected) = OperandStarts

(***************************************************************************)
(* C18: token offsets are character indices and the parser reads a token's *)
(* text with them: for every text, also when a character of more than one  *)
(* byte precedes the token, the Id leaf built from an Id token carries the *)
(* characters the lexer scanned for it, and building it never fails.       *)
(***************************************************************************)
C18_IdLeafCarriesTokenText ==
    (op.name = "parse_operand" /\ pre.current.variant = "Id")
        => result = Ok(IdExpr(TokenText(text, pre.current)))

(***************************************************************************)
(* C19: across any sequence of Lexer::next calls the cursor never          *)
(* decreases and never exceeds the length of the buffer, and once a call   *)
(* has returned end-of-input every later call returns end-of-input too (no *)
(* further token is returned) and leaves the cursor where it is.           *)
(***************************************************************************)
C19_CursorMonotone ==
    [][/\ position <= position'
       /\ position' <= Len(text)
       /\ ended => /\ ended'
                   /\ position' = position
                   /\ emitted' = emitted
                   /\ ~lastNext'.tok.some]_vars

\* a Lexer::next call made after one that returned end-of-input, on a
\* buffer that had tokens
C19_Witness ==
    /\ op.name = "Lexer::next"
    /\ pre.ended
    /\ ended
    /\ Len(emitted) > 0
    /\ lastNext.before = Len(text)
    /\ ~lastNext.tok.some

\* the offsets of the buffer the cursor has passed
Passed == {k \in 0..(Len(text) - 1) : k < position}

\* the offset k lies inside the span of a returned token
Covered(k) ==
    \E i \in 1..Len(emitted) : emitted[i].from <= k /\ k <= emitted[i].to

(***************************************************************************)
(* C20: draining the lexer covers the input exactly up to white space:     *)
(* every character that is not white space lies inside the span of a       *)
(* returned token (at every moment, every such character the cursor has    *)
(* passed; the whole buffer once end-of-input is returned), no token's     *)
(* span holds a white-space character, and a buffer that is empty or all   *)
(* white space gives end-of-input on the first call.                       *)
(***************************************************************************)
C20_DrainCoversInput ==
    /\ \A k \in Passed : ~IsWhitespace(text[k + 1]) => Covered(k)
    /\ ended => Passed = 0..(Len(text) - 1)
    /\ \A i \in 1..Len(emitted) :
          \A k \in emitted[i].from..emitted[i].to :
              ~IsWhitespace(text[k + 1])
    /\ ((\A k \in 1..Len(text) : IsWhitespace(text[k])) /\ lastNext.called)
          => ~lastNext.tok.some /\ emitted = <<>> /\ ended

\* a buffer with white space before and after its tokens has been drained
C20_Witness ==
    /\ ended
    /\ Len(text) >= 3
    /\ IsWhitespace(text[1])
    /\ IsWhitespace(text[Len(text)])
    /\ Len(emitted) >= 1
=============================================================================
